---- MODULE Spec2Model ----
(***************************************************************************)
(* Offline-first event synchronisation: EventRepositoryImpl over           *)
(* EventLocalDataSource over a key-value store that holds the whole event  *)
(* collection under one key.  Every await of the TypeScript code is a      *)
(* suspension point; a step of the model runs one logical flow from one    *)
(* suspension point to the next.                                           *)
(***************************************************************************)
EXTENDS Integers, Sequences, FiniteSets, TLC

\* ------------------------------------------------------------------ bounds
NProcs == 2        \* logical flows (facade calls) that may be in flight together
MaxEvents == 2     \* events created in a behaviour with overlapping calls
MaxCalls == 4      \* calls made in a behaviour with overlapping calls
MaxEventsSeq == 2  \* events created in a behaviour of awaited calls
MaxCallsSeq == 5   \* calls made in a behaviour of awaited calls
MaxEventsScen == 3 \* events created in a scenario of awaited calls
MaxCallsScen == 6  \* calls made in a scenario of awaited calls
MaxCallsStore == 3 \* overlapping calls made in a behaviour with deletion
MaxNetEvents == 3  \* connectivity state changes after the auto-sync hook is mounted
MaxEventsFacade == 1 \* events created in a behaviour of mutations
MaxCallsFacade == 5  \* mutations made in a behaviour of mutations
MaxPasses == 2       \* passes run in a behaviour with an interruption
MaxSliceIds == 2     \* ids of the events dispatched to the event slice
MaxSliceLen == 3     \* events held by the event slice
MaxDispatches == 4   \* event actions dispatched to the event slice

\* ------------------------------------------------------- program constants
MAX_RETRY_ATTEMPTS == 3

Procs == 1..NProcs
Max(a, b) == IF a >= b THEN a ELSE b
EventIds == 1..Max(MaxEvents, Max(MaxEventsSeq, MaxEventsScen))
ErrMsgs == {"io"}              \* error?.message of a thrown storage error
Absent == "absent"             \* an optional field that is undefined

VARIABLES
  store,        \* the collection parsed from the value under EVENTS_KEY
  online,       \* what NetInfo.fetch() reports now
  flow,         \* per logical flow: its call in flight and the call's locals
  nextId,       \* next id generateUUID hands out; events are constructed one
                \* after the other, the k-th at the instant k
  calls,        \* calls made so far
  lim,          \* the limits of this behaviour: flows, calls, events
  returned,     \* ids for which createEvent has resolved
  removed,      \* ids for which deleteEvent / clearEvents was invoked
  e2run,        \* per id: the failures recorded in a row for an event whose
                \* creation while connected failed (0: not such an event)
  auto,         \* the useAutoSync effect: its closure and the callbacks it awaits
  db,           \* a key-value backend (IDatabase) taken on its own
  facade,       \* the React Query client of the hooks: cache and mutations
  pass,         \* the inputs of a reconciliation pass that may be interrupted
  slice         \* the Redux event slice: state.events and state.pendingCount

vars == <<store, online, flow, nextId, calls, lim, returned, removed, e2run, auto, db, facade, pass,
         slice>>

\* The closure of the useAutoSync effect and what it waits for:
\*   mounted   the effect has run: the listener is subscribed, the initial
\*             isConnected() is called
\*   isOnline  the closure variable `isOnline`
\*   queue     connectivity states NetInfo has still to hand to the listener;
\*             kind tells what produced the state: "initial" (the state at
\*             subscription), "edge" (disconnected -> connected), "drop"
\*             (connected -> disconnected), "same" (a change that keeps it)
\*   check     the initial isConnected(): "none", "called", "fetched"
\*             (NetInfo.fetch has taken the state), "resolved" (.then has run)
\*   fetched   the value the initial isConnected() resolves with
\*   events    connectivity state changes since the hook was mounted
\*   syncs     syncMutation.mutate() calls made by the listener
\*   requested mutate() calls whose syncEvents() has not started yet
\*   launched  what the connectivity oracle reported when the hook was mounted

\* The locals of a flow:
\*   pc    the suspension point it waits at ("idle" before its first call,
\*         "done" after a call has ended)
\*   op    the operation it runs
\*   ctx   the saveEvent call site it is in: "try", "catch" or "else";
\*         "outer" once the outer catch block of syncEvents has run
\*   ev    the `event` object (parameter, or loop variable of syncEvents)
\*   loc   the copy `localeEvent` / `syncedEvent`
\*   evs   `events` read inside saveEvent / deleteEvent
\*   pend  `pendingOrFailedEvents` of a syncEvents pass
\*   idx   position of the for..of loop in pend
\*   res   how its last call ended: "ok" resolved, "throw" rejected
\*   conn  the local `isConnected`, once the connectivity check has resolved

\* ---------------------------------------------------------------- entity
\* A timestamp is the instant it stands for together with what it is: a Date
\* object ("Date") or the ISO text of one ("text").
DateAt(t) == [at |-> t, as |-> "Date"]
TextAt(t) == [at |-> t, as |-> "text"]

NullEvent ==
  [id |-> 0, status |-> "PENDING", syncAttempts |-> 0,
   lastSyncError |-> Absent, comment |-> 0, serverId |-> Absent,
   occurredAt |-> TextAt(0), createdAt |-> TextAt(0), updatedAt |-> TextAt(0)]

\* generateUUID(): the k-th id handed out; no id is handed out twice
generateUUID(k) == k

\* new EventEntity(generateUUID(), ..., data.occurredAt, ..., PENDING, 0)
\* constructed at the instant now: occurredAt is the Date of the form,
\* createdAt and updatedAt default to new Date()
NewEvent(id, now) ==
  [id |-> id, status |-> "PENDING", syncAttempts |-> 0,
   lastSyncError |-> Absent, comment |-> 0, serverId |-> Absent,
   occurredAt |-> DateAt(now), createdAt |-> DateAt(now),
   updatedAt |-> DateAt(now)]

\* error?.message || fallback
Message(m, fallback) == IF m # "" THEN m ELSE fallback

Min(a, b) == IF a <= b THEN a ELSE b

\* ----------------------------------------------------- EventLocalDataSource
\* what JSON.stringify followed by JSON.parse makes of a timestamp: a Date
\* is written as its ISO text (Date.prototype.toJSON) and text is read back
\* as text
ToJSON(d) == TextAt(d.at)

\* what JSON.parse(JSON.stringify(e)) makes of an event
Stringify(e) ==
  [e EXCEPT !.occurredAt = ToJSON(e.occurredAt),
            !.createdAt = ToJSON(e.createdAt),
            !.updatedAt = ToJSON(e.updatedAt)]

\* saveEvents followed by getEvents: the collection that JSON.parse reads
\* from the value that setItem(EVENTS_KEY, JSON.stringify(events)) has written
saveEvents(events) == [i \in 1..Len(events) |-> Stringify(events[i])]

\* events.findIndex(e => e.id === id), 1-based, 0 when absent
FindIndex(events, id) ==
  IF \E i \in 1..Len(events) : events[i].id = id
    THEN CHOOSE i \in 1..Len(events) :
           /\ events[i].id = id
           /\ \A j \in 1..(i - 1) : events[j].id # id
    ELSE 0

\* a save that drops the record it finds instead of replacing it
saveEventDrop(events, event) ==
  IF \E i \in 1..Len(events) : events[i].id = event.id
    THEN SelectSeq(events, LAMBDA e : e.id # event.id)
    ELSE Append(events, event)

\* a save that puts only the status of the event on the record it finds
saveEventStatus(events, event) ==
  IF \E i \in 1..Len(events) : events[i].id = event.id
    THEN [i \in 1..Len(events) |->
            IF events[i].id = event.id
              THEN [events[i] EXCEPT !.status = event.status]
              ELSE events[i]]
    ELSE Append(events, event)

\* a save that appends without looking for the id
saveEventAppend(events, event) == Append(events, event)

\* saveEvent: upsert by id into the collection that was read
saveEvent(events, event) ==
  IF FindIndex(events, event.id) > 0
    THEN [events EXCEPT ![FindIndex(events, event.id)] = event]
    ELSE Append(events, event)

\* getEventById: events.find(e => e.id === id) || null
getEventById(events, id) ==
  IF FindIndex(events, id) > 0 THEN events[FindIndex(events, id)] ELSE NullEvent

RECURSIVE Filter(_, _)
Filter(events, id) ==
  IF events = <<>> THEN <<>>
  ELSE IF Head(events).id = id THEN Filter(Tail(events), id)
  ELSE <<Head(events)>> \o Filter(Tail(events), id)

\* a delete whose filter keeps the records it should remove
deleteEventKeep(events, id) == SelectSeq(events, LAMBDA e : e.id = id)

\* deleteEvent: events.filter(e => e.id !== id)
deleteEvent(events, id) == Filter(events, id)

Ids(events) == {events[i].id : i \in 1..Len(events)}

\* ------------------------------------------------------ EventRepositoryImpl
\* createEvent, online: localeEvent = {...event}; status = SENT; syncAttempts = 0
CreateConfirmed(e) == [e EXCEPT !.status = "SENT", !.syncAttempts = 0]

\* createEvent, catch
CreateFailed(e, m) ==
  [e EXCEPT !.status = "FAILED", !.syncAttempts = 1,
            !.lastSyncError = Message(m, "Failed to sync")]

\* an offline branch that marks the event as confirmed
CreateOfflineSent(e) == [e EXCEPT !.status = "SENT", !.syncAttempts = 0]

\* createEvent, offline
CreateOffline(e) == [e EXCEPT !.status = "PENDING", !.syncAttempts = 0]

\* updateEvent, online: the copy that is saved
UpdateConfirmed(e) == [e EXCEPT !.status = "SENT", !.syncAttempts = 0]

\* updateEvent, online: event.lastSyncError = '' on the caller's object
UpdateClearInput(e) == [e EXCEPT !.lastSyncError = ""]

\* a catch block that counts without the cap
UpdateFailedUncapped(e, m) ==
  [e EXCEPT !.status = "FAILED",
            !.syncAttempts = e.syncAttempts + 1,
            !.lastSyncError = Message(m, "Failed to sync")]

\* updateEvent, catch
UpdateFailed(e, m) ==
  [e EXCEPT !.status = "FAILED",
            !.syncAttempts = Min(e.syncAttempts + 1, MAX_RETRY_ATTEMPTS),
            !.lastSyncError = Message(m, "Failed to sync")]

\* an offline branch that starts the attempts afresh
UpdateOfflineReset(e) ==
  [e EXCEPT !.status = "PENDING", !.syncAttempts = 0, !.lastSyncError = Absent]

\* updateEvent, offline
UpdateOffline(e) == [e EXCEPT !.status = "PENDING"]

\* syncEvents: the filter on the enumerated collection
IsPendingOrFailed(e) == e.status = "PENDING" \/ e.status = "FAILED"

RECURSIVE PendingOrFailed(_)
PendingOrFailed(events) ==
  IF events = <<>> THEN <<>>
  ELSE IF IsPendingOrFailed(Head(events))
    THEN <<Head(events)>> \o PendingOrFailed(Tail(events))
    ELSE PendingOrFailed(Tail(events))

\* a skip rule that is off by one
SkipRuleAbove(e) == e.syncAttempts > MAX_RETRY_ATTEMPTS

\* syncEvents: if (event.syncAttempts >= MAX_RETRY_ATTEMPTS) continue
SkipRule(e) == e.syncAttempts >= MAX_RETRY_ATTEMPTS

\* a delete that does not look at the connectivity check
DeleteProceedsAlways(isConnected) == TRUE

\* deleteEvent: if (isConnected)
DeleteProceeds(isConnected) == isConnected

\* a pass that does not look at the connectivity check
SyncProceedsAlways(isConnected) == TRUE

\* syncEvents: if (!isConnected) return
SyncProceeds(isConnected) == isConnected

\* a success branch that builds the record from the sync fields and leaves
\* the comment out
SyncConfirmedBare(e) ==
  [e EXCEPT !.status = "SENT", !.syncAttempts = 0, !.comment = 0]

\* syncEvents, try: syncedEvent = {...event}; status = SENT; syncAttempts = 0
SyncConfirmed(e) == [e EXCEPT !.status = "SENT", !.syncAttempts = 0]

\* a catch block that counts the failed attempt twice
SyncFailedTwice(e, m) ==
  [e EXCEPT !.syncAttempts = e.syncAttempts + 2,
            !.lastSyncError = Message(m, "Sync failed"),
            !.status = IF e.syncAttempts + 2 >= MAX_RETRY_ATTEMPTS
                         THEN "FAILED" ELSE "PENDING"]

\* a catch block that never marks the event FAILED
SyncFailedPending(e, m) ==
  [e EXCEPT !.syncAttempts = e.syncAttempts + 1,
            !.lastSyncError = Message(m, "Sync failed"),
            !.status = "PENDING"]

\* a catch block that leaves a FAILED event FAILED
SyncFailedSticky(e, m) ==
  [e EXCEPT !.syncAttempts = e.syncAttempts + 1,
            !.lastSyncError = Message(m, "Sync failed"),
            !.status = IF e.syncAttempts + 1 >= MAX_RETRY_ATTEMPTS
                            \/ e.status = "FAILED"
                         THEN "FAILED" ELSE "PENDING"]

\* syncEvents, catch
SyncFailed(e, m) ==
  [e EXCEPT !.syncAttempts = e.syncAttempts + 1,
            !.lastSyncError = Message(m, "Sync failed"),
            !.status = IF e.syncAttempts + 1 >= MAX_RETRY_ATTEMPTS
                         THEN "FAILED" ELSE "PENDING"]

\* ------------------------------------------------------ key-value backends
\* A value of the key-value store: no value (getItem gives null), text that
\* JSON.parse rejects, or the JSON text of a collection of events. Unassigned
\* stands for a constant that no getItem has resolved into.
NoValue == [is |-> "absent", events |-> <<>>]
Unassigned == [is |-> "none", events |-> <<>>]
Unparsable == [is |-> "text", events |-> <<>>]
Json(events) == [is |-> "json", events |-> saveEvents(events)]

\* what the last backend or data source operation gave its caller
\*   op      the operation
\*   threw   it rejected
\*   failed  the underlying storage call of the operation failed
\*   mem     it was served by the in-memory substitute
\*   data    what getItem resolved with
\*   events  the collection getEvents resolved with
\*   arg     the value setItem was called with
\*   keys    the keys multiGet was called with
\*   list    what multiGet resolved with
NullOut ==
  [op |-> "none", threw |-> FALSE, failed |-> FALSE, mem |-> FALSE,
   data |-> Unassigned, events |-> <<>>, arg |-> Unassigned, keys |-> <<>>,
   list |-> <<>>]

\* A backend:
\*   kind         "asyncStorage" (Database), "sqlite" (SQLiteStorage),
\*                "redux" (ReduxStorage) or "memory" (MemoryStorage)
\*   under        the value under EVENTS_KEY in the underlying storage
\*                (AsyncStorage, the kv_store table, state.events.storage,
\*                the Map of MemoryStorage)
\*   mem          the value under EVENTS_KEY in SQLiteStorage.inMemoryFallback
\*   useFallback  SQLiteStorage.useFallback
\*   open         SQLiteStorage.db is set
\*   failed       an underlying storage call has failed in this session
\*   out          what the last operation gave its caller
NullDb ==
  [kind |-> "redux", under |-> NoValue, mem |-> NoValue, useFallback |-> FALSE,
   open |-> FALSE, failed |-> FALSE, out |-> NullOut]

\* The query client and the mutation observers of the hooks:
\*   on       the operations are called through the hooks
\*   cached   the list query (eventKeys.lists()) has data
\*   list     the data of the list query
\*   stale    the list query is invalidated or older than its staleTime
\*   dirty    a mutation has succeeded since the list was last fetched
\*   handled  mutations whose result the hooks have handled
\*   shown    what the last mutation reported: "success" (onSuccess) or
\*            "error" (onError)
\*   data     the event the last successful mutation resolved with
\*   served   where the last list read took its data: "store" or "cache"
NullFacade ==
  [on |-> FALSE, cached |-> FALSE, list |-> <<>>, stale |-> FALSE,
   dirty |-> FALSE, handled |-> 0, shown |-> "none", data |-> NullEvent,
   served |-> "none"]

\* The inputs of a pass that the termination of the application may
\* interrupt:
\*   start    the collection stored when the first pass starts
\*   outcome  per event id, what its attempts meet: "ok", or the message of
\*            the error its first saveEvent throws
\*   cuts     terminations of the application so far
NullPass == [start |-> <<>>, outcome |-> <<>>, cuts |-> 0]

\* ------------------------------------------------------ Redux event slice
\* initialState: events and pendingCount, the fields the event reducers use
initialState == [events |-> <<>>, pendingCount |-> 0]

\* serializeEvent: a Date becomes its ISO text, text is left as it is
ToISOString(d) == IF d.as = "Date" THEN TextAt(d.at) ELSE d
serializeEvent(e) ==
  [e EXCEPT !.occurredAt = ToISOString(e.occurredAt),
            !.createdAt = ToISOString(e.createdAt),
            !.updatedAt = ToISOString(e.updatedAt)]

\* events.filter(e => e.status === 'PENDING').length
RECURSIVE PendingLength(_)
PendingLength(events) ==
  IF events = <<>> THEN 0
  ELSE (IF Head(events).status = "PENDING" THEN 1 ELSE 0)
         + PendingLength(Tail(events))

\* events.filter(e => e.id !== id)
RECURSIVE Without(_, _)
Without(events, id) ==
  IF events = <<>> THEN <<>>
  ELSE IF Head(events).id = id THEN Without(Tail(events), id)
  ELSE <<Head(events)>> \o Without(Tail(events), id)

\* reducer setEvents
setEvents(state, payload) ==
  [state EXCEPT !.events = [i \in 1..Len(payload) |-> serializeEvent(payload[i])],
                !.pendingCount = PendingLength(payload)]

\* reducer addEvent
addEvent(state, payload) ==
  [state EXCEPT !.events = Append(@, serializeEvent(payload)),
                !.pendingCount = IF payload.status = "PENDING" THEN @ + 1 ELSE @]

\* reducer updateEvent: the first event with the id is replaced
updateEvent(state, payload) ==
  LET index == FindIndex(state.events, payload.id) IN
  IF index >= 1
  THEN LET oldStatus == state.events[index].status IN
       [state EXCEPT !.events[index] = serializeEvent(payload),
                     !.pendingCount =
                        IF oldStatus = "PENDING" /\ payload.status # "PENDING"
                          THEN Max(0, @ - 1)
                        ELSE IF oldStatus # "PENDING" /\ payload.status = "PENDING"
                          THEN @ + 1
                        ELSE @]
  ELSE state

\* reducer removeEvent: the count follows the first event with the id, the
\* filter drops every event with the id
removeEvent(state, id) ==
  LET index == FindIndex(state.events, id) IN
  [state EXCEPT !.events = Without(@, id),
                !.pendingCount =
                   IF index >= 1 /\ state.events[index].status = "PENDING"
                     THEN Max(0, @ - 1) ELSE @]

\* the events dispatched to the slice
Payloads ==
  {[NewEvent(id, id) EXCEPT !.status = st] :
     id \in 1..MaxSliceIds, st \in {"PENDING", "SENT", "FAILED"}}

\* dispatch(setEvents(payload))
SliceSetEvents ==
  /\ calls < lim.calls
  /\ \E payload \in {<<>>} \cup {<<a>> : a \in Payloads}
                         \cup {<<a, b>> : a \in Payloads, b \in Payloads} :
       slice' = setEvents(slice, payload)
  /\ calls' = calls + 1
  /\ UNCHANGED <<store, online, flow, nextId, lim, returned, removed, e2run, auto, db, facade, pass>>

\* dispatch(addEvent(payload))
SliceAddEvent ==
  /\ calls < lim.calls
  /\ Len(slice.events) < MaxSliceLen
  /\ \E payload \in Payloads : slice' = addEvent(slice, payload)
  /\ calls' = calls + 1
  /\ UNCHANGED <<store, online, flow, nextId, lim, returned, removed, e2run, auto, db, facade, pass>>

\* dispatch(updateEvent(payload))
SliceUpdateEvent ==
  /\ calls < lim.calls
  /\ \E payload \in Payloads : slice' = updateEvent(slice, payload)
  /\ calls' = calls + 1
  /\ UNCHANGED <<store, online, flow, nextId, lim, returned, removed, e2run, auto, db, facade, pass>>

\* dispatch(removeEvent(id))
SliceRemoveEvent ==
  /\ calls < lim.calls
  /\ \E id \in 1..MaxSliceIds : slice' = removeEvent(slice, id)
  /\ calls' = calls + 1
  /\ UNCHANGED <<store, online, flow, nextId, lim, returned, removed, e2run, auto, db, facade, pass>>

\* ------------------------------------------------------------------- init
\* useAutoSync before its effect has run
NullAuto ==
  [mounted |-> FALSE, isOnline |-> FALSE, queue |-> <<>>, check |-> "none",
   fetched |-> FALSE, events |-> 0, syncs |-> 0, requested |-> 0,
   launched |-> FALSE]

NullFlow ==
  [pc |-> "idle", op |-> "none", ctx |-> "none", ev |-> NullEvent,
   loc |-> NullEvent, evs |-> <<>>, pend |-> <<>>, idx |-> 0, res |-> "none",
   conn |-> FALSE]

InitCommon ==
  /\ store = <<>>
  /\ online \in BOOLEAN
  /\ flow = [p \in Procs |-> NullFlow]
  /\ nextId = 1
  /\ calls = 0
  /\ returned = {}
  /\ removed = {}
  /\ e2run = [id \in EventIds |-> 0]
  /\ auto = NullAuto
  /\ db = NullDb
  /\ facade = NullFacade
  /\ pass = NullPass
  /\ slice = initialState

\* calls may overlap
Init ==
  /\ InitCommon
  /\ lim = [flows |-> NProcs, calls |-> MaxCalls, events |-> MaxEvents]

\* one call at a time: every call is awaited before the next is made
InitSeq ==
  /\ InitCommon
  /\ lim = [flows |-> 1, calls |-> MaxCallsSeq, events |-> MaxEventsSeq]

\* the store is created: the event slice has its initial state and only the
\* event actions are dispatched
InitSlice ==
  /\ InitCommon
  /\ lim = [flows |-> 0, calls |-> MaxDispatches, events |-> 0]

\* one call at a time, long enough for the scenarios over three events
InitScen ==
  /\ InitCommon
  /\ lim = [flows |-> 1, calls |-> MaxCallsScen, events |-> MaxEventsScen]

\* useAutoSync once its effect has run while the oracle reports c: the
\* listener is subscribed and NetInfo owes it the state at subscription, the
\* initial isConnected() is called
Mounted(c) ==
  [NullAuto EXCEPT !.mounted = TRUE, !.check = "called", !.launched = c,
                   !.queue = <<[conn |-> c, kind |-> "initial"]>>]

\* an event left by an earlier session with its attempts used up
Exhausted(id, now) ==
  [Stringify(NewEvent(id, now)) EXCEPT !.status = "FAILED",
                                       !.syncAttempts = MAX_RETRY_ATTEMPTS,
                                       !.lastSyncError = "io"]

\* collections an earlier session has left under EVENTS_KEY
LaunchStores ==
  {<<>>,
   <<Stringify(NewEvent(generateUUID(1), 1))>>,
   <<Exhausted(generateUUID(1), 1), Stringify(NewEvent(generateUUID(2), 2))>>}

\* the application is launched: App mounts useAutoSync over the collection
\* an earlier session has left; only the hook calls the repository
InitAuto ==
  /\ store \in LaunchStores
  /\ online \in BOOLEAN
  /\ flow = [p \in Procs |-> NullFlow]
  /\ nextId = Len(store) + 1
  /\ calls = 0
  /\ returned = {}
  /\ removed = {}
  /\ e2run = [id \in EventIds |-> 0]
  /\ auto = Mounted(online)
  /\ db = NullDb
  /\ facade = NullFacade
  /\ pass = NullPass
  /\ slice = initialState
  /\ lim = [flows |-> 1, calls |-> 0, events |-> 0]

\* the application is launched over the collection an earlier session has
\* left; calls may overlap
InitLaunch ==
  /\ store \in LaunchStores
  /\ online \in BOOLEAN
  /\ flow = [p \in Procs |-> NullFlow]
  /\ nextId = Len(store) + 1
  /\ calls = 0
  /\ returned = {}
  /\ removed = {}
  /\ e2run = [id \in EventIds |-> 0]
  /\ auto = NullAuto
  /\ db = NullDb
  /\ facade = NullFacade
  /\ pass = NullPass
  /\ slice = initialState
  /\ lim = [flows |-> NProcs, calls |-> MaxCallsStore, events |-> MaxEvents]

\* --------------------------------------------------------------- helpers
Resting(p) == flow[p].pc \in {"idle", "done"}

\* a call made through a hook is made after the mutation before it has been
\* handled: onSuccess / onError run as the mutation function settles
CanCall(p) ==
  /\ Resting(p)
  /\ p <= lim.flows
  /\ calls < lim.calls
  /\ facade.on => facade.handled = calls

\* the object the pending saveEvent call was given
SaveArg(f) == IF f.ctx = "try" THEN f.loc ELSE f.ev

\* flow p is given the locals f
Step(p, f) == flow' = [flow EXCEPT ![p] = f]

\* the locals of a call of operation o on event e that waits at its first await
Begin(o, e, at) == [NullFlow EXCEPT !.pc = at, !.op = o, !.ev = e]

\* the locals after the call has ended with r; what it read is dropped
End(f, r) ==
  [f EXCEPT !.pc = "done", !.res = r, !.evs = <<>>, !.pend = <<>>, !.idx = 0]

\* an outer catch block that throws the error on to the caller
OuterCatchRethrow(f) == End([f EXCEPT !.ctx = "outer"], "throw")

\* syncEvents, outer catch: console.error('Sync error:', error); the call
\* returns
OuterCatch(f) == End([f EXCEPT !.ctx = "outer"], "ok")

\* ------------------------------------------------- key-value backend calls
Kinds == {"asyncStorage", "sqlite", "redux", "memory"}

\* the strings a caller may hand to setItem
Strings == {Unparsable} \cup {Json(c) : c \in LaunchStores}

\* what an earlier session may have left under EVENTS_KEY
Persisted == {NoValue} \cup Strings

\* SQLiteStorage has neither a handle nor its fallback flag yet
NeedsOpen(d) == d.kind = "sqlite" /\ ~d.open /\ ~d.useFallback

\* SQLiteStorage.ensureDb with initializeDatabase: the database is opened
\* when there is neither a handle nor the flag; a failure to open sets the
\* flag. Every operation starts here, with nothing given to its caller yet.
ensureDb(d, opens) ==
  IF NeedsOpen(d)
  THEN IF opens
       THEN [d EXCEPT !.open = TRUE, !.out = NullOut]
       ELSE [d EXCEPT !.useFallback = TRUE, !.failed = TRUE,
                      !.out = [NullOut EXCEPT !.failed = TRUE]]
  ELSE [d EXCEPT !.out = NullOut]

\* the operation goes on to call the underlying storage
Reaches(d) ==
  \/ d.kind \in {"asyncStorage", "redux"}
  \/ d.kind = "sqlite" /\ ~d.useFallback

\* the operation resolves; mem: it was served by the in-memory substitute
Gave(d, op, mem, data) ==
  [d EXCEPT !.out = [@ EXCEPT !.op = op, !.mem = mem, !.data = data]]

\* the underlying call fails and the catch block of the operation resolves
Swallowed(d, op, mem, data) ==
  [d EXCEPT !.failed = TRUE,
            !.out = [@ EXCEPT !.op = op, !.failed = TRUE, !.mem = mem,
                              !.data = data]]

\* the underlying call fails and the operation rejects
Threw(d, op) ==
  [d EXCEPT !.failed = TRUE,
            !.out = [@ EXCEPT !.op = op, !.failed = TRUE, !.threw = TRUE]]

\* IDatabase.setItem(EVENTS_KEY, value)
setItem(d0, value, opens, works) ==
  LET d == [ensureDb(d0, opens) EXCEPT !.out.arg = value] IN
  CASE d.kind = "asyncStorage" ->
         IF works THEN Gave([d EXCEPT !.under = value], "setItem", FALSE, Unassigned)
                  ELSE Threw(d, "setItem")
    [] d.kind = "sqlite" ->
         IF d.useFallback
         THEN Gave([d EXCEPT !.mem = value], "setItem", TRUE, Unassigned)
         ELSE IF works
              THEN Gave([d EXCEPT !.under = value], "setItem", FALSE, Unassigned)
              ELSE Swallowed([d EXCEPT !.mem = value], "setItem", TRUE, Unassigned)
    [] d.kind = "redux" ->
         IF works THEN Gave([d EXCEPT !.under = value], "setItem", FALSE, Unassigned)
                  ELSE Swallowed(d, "setItem", FALSE, Unassigned)
    [] d.kind = "memory" ->
         Gave([d EXCEPT !.under = value], "setItem", FALSE, Unassigned)

\* IDatabase.getItem(EVENTS_KEY)
getItem(d0, opens, works) ==
  LET d == ensureDb(d0, opens) IN
  CASE d.kind = "asyncStorage" ->
         IF works THEN Gave(d, "getItem", FALSE, d.under)
                  ELSE Threw(d, "getItem")
    [] d.kind = "sqlite" ->
         IF d.useFallback
         THEN Gave(d, "getItem", TRUE, d.mem)
         ELSE IF works
              THEN Gave(d, "getItem", FALSE, d.under)
              ELSE Swallowed(d, "getItem", TRUE, d.mem)
    [] d.kind = "redux" ->
         IF works THEN Gave(d, "getItem", FALSE, d.under)
                  ELSE Swallowed(d, "getItem", FALSE, NoValue)
    [] d.kind = "memory" ->
         Gave(d, "getItem", FALSE, d.under)

\* IDatabase.removeItem(EVENTS_KEY)
removeItem(d0, opens, works) ==
  LET d == ensureDb(d0, opens) IN
  CASE d.kind = "asyncStorage" ->
         IF works THEN Gave([d EXCEPT !.under = NoValue], "removeItem", FALSE, Unassigned)
                  ELSE Threw(d, "removeItem")
    [] d.kind = "sqlite" ->
         IF d.useFallback
         THEN Gave([d EXCEPT !.mem = NoValue], "removeItem", TRUE, Unassigned)
         ELSE IF works
              THEN Gave([d EXCEPT !.under = NoValue], "removeItem", FALSE, Unassigned)
              ELSE Swallowed([d EXCEPT !.mem = NoValue], "removeItem", TRUE, Unassigned)
    [] d.kind = "redux" ->
         IF works THEN Gave([d EXCEPT !.under = NoValue], "removeItem", FALSE, Unassigned)
                  ELSE Swallowed(d, "removeItem", FALSE, Unassigned)
    [] d.kind = "memory" ->
         Gave([d EXCEPT !.under = NoValue], "removeItem", FALSE, Unassigned)

\* the keys of a request: the key of the collection and a key nothing is
\* stored under
EVENTS_KEY == "events"
OtherKey == "other"
KeyLists ==
  {<<a>> : a \in {EVENTS_KEY, OtherKey}}
    \cup {<<a, b>> : a \in {EVENTS_KEY, OtherKey}, b \in {EVENTS_KEY, OtherKey}}

\* keys.map(k => values.get(k) ?? null), values holding v under EVENTS_KEY
MapKeys(keys, v) ==
  [i \in 1..Len(keys) |-> IF keys[i] = EVENTS_KEY THEN v ELSE NoValue]

\* keys.map(() => null)
MapNull(keys) == [i \in 1..Len(keys) |-> NoValue]

\* the request and the list multiGet resolves with are recorded
GaveList(d, keys, list) ==
  [d EXCEPT !.out.keys = keys, !.out.list = list]

\* IDatabase.multiGet(keys)
multiGet(d0, keys, opens, works) ==
  LET d == ensureDb(d0, opens) IN
  CASE d.kind = "asyncStorage" ->
         IF works
         THEN GaveList(Gave(d, "multiGet", FALSE, Unassigned), keys,
                       MapKeys(keys, d.under))
         ELSE GaveList(Threw(d, "multiGet"), keys, <<>>)
    [] d.kind = "sqlite" ->
         IF d.useFallback
         THEN GaveList(Gave(d, "multiGet", TRUE, Unassigned), keys,
                       MapKeys(keys, d.mem))
         ELSE IF works
              THEN GaveList(Gave(d, "multiGet", FALSE, Unassigned), keys,
                            MapKeys(keys, d.under))
              ELSE GaveList(Swallowed(d, "multiGet", TRUE, Unassigned), keys,
                            MapKeys(keys, d.mem))
    [] d.kind = "redux" ->
         IF works
         THEN GaveList(Gave(d, "multiGet", FALSE, Unassigned), keys,
                       MapKeys(keys, d.under))
         ELSE GaveList(Swallowed(d, "multiGet", FALSE, Unassigned), keys,
                       MapNull(keys))
    [] d.kind = "memory" ->
         GaveList(Gave(d, "multiGet", FALSE, Unassigned), keys,
                  MapKeys(keys, d.under))

\* EventLocalDataSource.getEvents without its try block: JSON.parse throws
\* on text it rejects
getEventsUnguarded(data) ==
  IF data.is = "absent" THEN [threw |-> FALSE, events |-> <<>>]
  ELSE IF data.is = "json" THEN [threw |-> FALSE, events |-> data.events]
  ELSE [threw |-> TRUE, events |-> <<>>]

\* EventLocalDataSource.getEvents over the string getItem resolved with:
\* if (!data) return []; try { return JSON.parse(data) } catch { return [] }
getEvents(data) ==
  IF data.is = "absent" THEN [threw |-> FALSE, events |-> <<>>]
  ELSE IF data.is = "json" THEN [threw |-> FALSE, events |-> data.events]
  ELSE [threw |-> FALSE, events |-> <<>>]

\* the outcomes of the calls an operation on d makes: whether opening the
\* database works and whether the underlying call works; an outcome of a
\* call that is not made is not an input
Outcomes(d, opens, works) ==
  /\ NeedsOpen(d) \/ opens
  /\ Reaches(ensureDb(d, opens)) \/ works

\* EventLocalDataSource.saveEvents / a caller of the backend: setItem
DbSetItem ==
  \E value \in Strings, opens \in BOOLEAN, works \in BOOLEAN :
    /\ Outcomes(db, opens, works)
    /\ db' = setItem(db, value, opens, works)
    /\ UNCHANGED <<store, online, flow, nextId, calls, lim, returned, removed, e2run, auto, facade, pass, slice>>

\* EventLocalDataSource.getEvents: getItem, then JSON.parse of what it gave
DbGetEvents ==
  \E opens \in BOOLEAN, works \in BOOLEAN :
    /\ Outcomes(db, opens, works)
    /\ LET d == getItem(db, opens, works)
           r == getEvents(d.out.data)
       IN db' = IF d.out.threw
                THEN [d EXCEPT !.out.op = "getEvents"]
                ELSE [d EXCEPT !.out.op = "getEvents", !.out.threw = r.threw,
                               !.out.events = r.events]
    /\ UNCHANGED <<store, online, flow, nextId, calls, lim, returned, removed, e2run, auto, facade, pass, slice>>

\* a caller of the backend: multiGet
DbMultiGet ==
  \E keys \in KeyLists, opens \in BOOLEAN, works \in BOOLEAN :
    /\ Outcomes(db, opens, works)
    /\ db' = multiGet(db, keys, opens, works)
    /\ UNCHANGED <<store, online, flow, nextId, calls, lim, returned, removed, e2run, auto, facade, pass, slice>>

\* EventLocalDataSource.clearEvents: removeItem
DbRemoveItem ==
  \E opens \in BOOLEAN, works \in BOOLEAN :
    /\ Outcomes(db, opens, works)
    /\ db' = removeItem(db, opens, works)
    /\ UNCHANGED <<store, online, flow, nextId, calls, lim, returned, removed, e2run, auto, facade, pass, slice>>

\* ------------------------------------------------------------------ hooks
\* a sync mutation without the invalidation
InvalidatesEdits(op) == op \in {"create", "update", "delete"}

\* the mutations whose onSuccess invalidates the list query
Invalidates(op) == op \in {"create", "update", "delete", "sync"}

\* a mutation's function has settled and the hook has not handled it yet
Unhandled(p) ==
  /\ facade.on
  /\ flow[p].pc = "done"
  /\ facade.handled < calls

\* useCreateEvent / useUpdateEvent / useDeleteEvent / useSyncEvents: the
\* mutation function has resolved and onSuccess runs (the list query is
\* invalidated), or it has rejected and the caller's onError runs
Settle(p) ==
  /\ Unhandled(p)
  /\ facade' =
       IF flow[p].res = "ok"
       THEN [facade EXCEPT !.handled = @ + 1, !.shown = "success",
                           !.data = IF flow[p].op \in {"create", "update"}
                                    THEN SaveArg(flow[p]) ELSE NullEvent,
                           !.dirty = TRUE,
                           !.stale = @ \/ Invalidates(flow[p].op)]
       ELSE [facade EXCEPT !.handled = @ + 1, !.shown = "error",
                           !.data = NullEvent]
  /\ UNCHANGED <<store, online, flow, nextId, calls, lim, returned, removed, e2run, auto, db, pass, slice>>

\* useGetEvents over the query client f while the store holds events: the
\* query function (getAllEvents) runs when the query has no data or is
\* stale, otherwise the cached data is used
useGetEvents(f, events) ==
  IF ~f.cached \/ f.stale
  THEN [f EXCEPT !.cached = TRUE, !.list = events, !.stale = FALSE,
                 !.dirty = FALSE, !.served = "store"]
  ELSE [f EXCEPT !.served = "cache"]

\* a screen that lists the events mounts or regains focus
ListRead ==
  /\ facade.on
  /\ \A p \in Procs : ~Unhandled(p)
  /\ facade' = useGetEvents(facade, store)
  /\ UNCHANGED <<store, online, flow, nextId, calls, lim, returned, removed, e2run, auto, db, pass, slice>>

\* staleTime (30 s) passes over the list query
Expire ==
  /\ facade.on /\ facade.cached /\ ~facade.stale
  /\ facade' = [facade EXCEPT !.stale = TRUE]
  /\ UNCHANGED <<store, online, flow, nextId, calls, lim, returned, removed, e2run, auto, db, pass, slice>>

\* ------------------------------------------------------------ environment
\* the device gains or loses connectivity
NetChange ==
  /\ online' = ~online
  /\ UNCHANGED <<store, flow, nextId, calls, lim, returned, removed, e2run, auto, db, facade, pass, slice>>

\* the device gains or loses connectivity while the hook listens: NetInfo
\* owes the listener the new state
NetEvent ==
  /\ auto.mounted /\ auto.events < MaxNetEvents
  /\ online' = ~online
  /\ auto' = [auto EXCEPT !.events = @ + 1,
                          !.queue = Append(@, [conn |-> ~online,
                                               kind |-> IF online THEN "drop"
                                                                  ELSE "edge"])]
  /\ UNCHANGED <<store, flow, nextId, calls, lim, returned, removed, e2run, db, facade, pass, slice>>

\* the connection changes in a way that keeps isConnected (its type, its
\* details): NetInfo owes the listener a state with the same isConnected
NetSame ==
  /\ auto.mounted /\ auto.events < MaxNetEvents
  /\ auto' = [auto EXCEPT !.events = @ + 1,
                          !.queue = Append(@, [conn |-> online, kind |-> "same"])]
  /\ UNCHANGED <<store, online, flow, nextId, calls, lim, returned, removed, e2run, db, facade, pass, slice>>

\* ------------------------------------------------------------ useAutoSync
\* if (!wasOnline && isOnline)
Transition(wasOnline, isOnline) == ~wasOnline /\ isOnline

\* the listener is called with the oldest state NetInfo owes it
Listener ==
  /\ auto.mounted /\ auto.queue # <<>>
  /\ LET state == Head(auto.queue)
         wasOnline == auto.isOnline
         fire == Transition(wasOnline, state.conn)
     IN auto' = [auto EXCEPT !.queue = Tail(@),
                             !.isOnline = state.conn,
                             !.syncs = IF fire THEN @ + 1 ELSE @,
                             !.requested = IF fire THEN @ + 1 ELSE @]
  /\ UNCHANGED <<store, online, flow, nextId, calls, lim, returned, removed, e2run, db, facade, pass, slice>>

\* the initial isConnected(): NetInfo.fetch() takes the state
InitialFetch ==
  /\ auto.check = "called"
  /\ auto' = [auto EXCEPT !.check = "fetched", !.fetched = online]
  /\ UNCHANGED <<store, online, flow, nextId, calls, lim, returned, removed, e2run, db, facade, pass, slice>>

\* the initial isConnected() resolves: .then(connected => isOnline = connected)
InitialResolve ==
  /\ auto.check = "fetched"
  /\ auto' = [auto EXCEPT !.check = "resolved", !.isOnline = auto.fetched]
  /\ UNCHANGED <<store, online, flow, nextId, calls, lim, returned, removed, e2run, db, facade, pass, slice>>

\* a mutation the listener has requested starts: syncEvents() is called
AutoSyncStart(p) ==
  /\ auto.requested > 0
  /\ Resting(p) /\ p <= lim.flows
  /\ Step(p, Begin("sync", NullEvent, "conn"))
  /\ auto' = [auto EXCEPT !.requested = @ - 1]
  /\ calls' = calls + 1
  /\ UNCHANGED <<store, online, nextId, lim, returned, removed, e2run, db, facade, pass, slice>>

\* ------------------------------------------------------------------ calls
\* CreateEventScreen.onSubmit -> useCreateEvent -> createEvent(newEvent)
CreateCall(p) ==
  /\ CanCall(p)
  /\ nextId <= lim.events
  /\ Step(p, Begin("create", NewEvent(generateUUID(nextId), nextId), "conn"))
  /\ nextId' = nextId + 1
  /\ calls' = calls + 1
  /\ UNCHANGED <<store, online, lim, returned, removed, e2run, auto, db, facade, pass, slice>>

\* EventDetailScreen.handleRetry / an edit: updateEvent(event) with the event
\* the screen has read from the store, its comment possibly edited
UpdateCall(p) ==
  /\ CanCall(p)
  /\ \E i \in 1..Len(store), c \in {0, 1} :
       /\ c >= store[i].comment
       /\ Step(p, Begin("update", [store[i] EXCEPT !.comment = c], "conn"))
  /\ calls' = calls + 1
  /\ UNCHANGED <<store, online, nextId, lim, returned, removed, e2run, auto, db, facade, pass, slice>>

\* useSyncEvents / useAutoSync -> syncEvents()
SyncCall(p) ==
  /\ CanCall(p)
  /\ Step(p, Begin("sync", NullEvent, "conn"))
  /\ calls' = calls + 1
  /\ UNCHANGED <<store, online, nextId, lim, returned, removed, e2run, auto, db, facade, pass, slice>>

\* useDeleteEvent -> deleteEvent(id)
DeleteCall(p) ==
  /\ CanCall(p)
  /\ \E id \in 1..(nextId - 1) :
       /\ Step(p, Begin("delete", [NullEvent EXCEPT !.id = id], "conn"))
       /\ removed' = removed \cup {id}
  /\ calls' = calls + 1
  /\ UNCHANGED <<store, online, nextId, lim, returned, e2run, auto, db, facade, pass, slice>>

\* EventLocalDataSource.clearEvents()
ClearCall(p) ==
  /\ CanCall(p)
  /\ Step(p, Begin("clear", NullEvent, "x_remove"))
  /\ removed' = removed \cup (1..(nextId - 1))
  /\ calls' = calls + 1
  /\ UNCHANGED <<store, online, nextId, lim, returned, e2run, auto, db, facade, pass, slice>>

\* ------------------------------------------------- await isConnected()
\* createEvent: the connectivity check resolves and the branch is taken
CreateConn(p) ==
  /\ flow[p].pc = "conn" /\ flow[p].op = "create"
  /\ Step(p, IF online
               THEN [flow[p] EXCEPT !.pc = "sv_read", !.ctx = "try",
                                    !.conn = TRUE,
                                    !.loc = CreateConfirmed(flow[p].ev)]
               ELSE [flow[p] EXCEPT !.pc = "sv_read", !.ctx = "else",
                                    !.conn = FALSE,
                                    !.ev = CreateOffline(flow[p].ev)])
  /\ UNCHANGED <<store, online, nextId, calls, lim, returned, removed, e2run, auto, db, facade, pass, slice>>

\* updateEvent: the connectivity check resolves and the branch is taken
UpdateConn(p) ==
  /\ flow[p].pc = "conn" /\ flow[p].op = "update"
  /\ Step(p, IF online
               THEN [flow[p] EXCEPT !.pc = "sv_read", !.ctx = "try",
                                    !.conn = TRUE,
                                    !.loc = UpdateConfirmed(flow[p].ev),
                                    !.ev = UpdateClearInput(flow[p].ev)]
               ELSE [flow[p] EXCEPT !.pc = "sv_read", !.ctx = "else",
                                    !.conn = FALSE,
                                    !.ev = UpdateOffline(flow[p].ev)])
  /\ UNCHANGED <<store, online, nextId, calls, lim, returned, removed, e2run, auto, db, facade, pass, slice>>

\* syncEvents: the connectivity check resolves; offline returns at once
SyncConn(p) ==
  /\ flow[p].pc = "conn" /\ flow[p].op = "sync"
  /\ Step(p, IF SyncProceeds(online)
               THEN [flow[p] EXCEPT !.pc = "s_enum", !.conn = online]
               ELSE End([flow[p] EXCEPT !.conn = online], "ok"))
  /\ UNCHANGED <<store, online, nextId, calls, lim, returned, removed, e2run, auto, db, facade, pass, slice>>

\* deleteEvent: the connectivity check resolves; offline does nothing
DeleteConn(p) ==
  /\ flow[p].pc = "conn" /\ flow[p].op = "delete"
  /\ Step(p, IF DeleteProceeds(online)
               THEN [flow[p] EXCEPT !.pc = "d_read", !.conn = online]
               ELSE End([flow[p] EXCEPT !.conn = online], "ok"))
  /\ UNCHANGED <<store, online, nextId, calls, lim, returned, removed, e2run, auto, db, facade, pass, slice>>

\* ------------------------------------------------ saveEvent, step by step
\* saveEvent: `await this.getEvents()` resolves with the stored collection
SaveRead(p) ==
  /\ flow[p].pc = "sv_read"
  /\ Step(p, [flow[p] EXCEPT !.pc = "sv_write", !.evs = store])
  /\ UNCHANGED <<store, online, nextId, calls, lim, returned, removed, e2run, auto, db, facade, pass, slice>>

\* createEvent / updateEvent: saveEvents writes the collection, the call returns
SaveWriteReturn(p) ==
  /\ flow[p].pc = "sv_write" /\ flow[p].op \in {"create", "update"}
  /\ store' = saveEvents(saveEvent(flow[p].evs, SaveArg(flow[p])))
  /\ Step(p, End(flow[p], "ok"))
  /\ returned' = IF flow[p].op = "create"
                   THEN returned \cup {SaveArg(flow[p]).id}
                   ELSE returned
  /\ e2run' = [e2run EXCEPT ![SaveArg(flow[p]).id] =
                 IF flow[p].op = "create" /\ flow[p].ctx = "catch" THEN 1 ELSE 0]
  /\ UNCHANGED <<online, nextId, calls, lim, removed, auto, db, facade, pass, slice>>

\* syncEvents: saveEvents writes the collection, the loop moves on
SaveWriteSync(p) ==
  /\ flow[p].pc = "sv_write" /\ flow[p].op = "sync"
  /\ store' = saveEvents(saveEvent(flow[p].evs, SaveArg(flow[p])))
  /\ Step(p, [flow[p] EXCEPT !.pc = "s_loop", !.idx = @ + 1, !.evs = <<>>])
  /\ e2run' = [e2run EXCEPT ![SaveArg(flow[p]).id] =
                 IF flow[p].ctx = "catch" /\ @ > 0 THEN @ + 1 ELSE 0]
  /\ UNCHANGED <<online, nextId, calls, lim, returned, removed, auto, db, facade, pass, slice>>

\* the object the catch block leaves in `event` for a thrown error message m
Caught(o, e, m) ==
  IF o = "create" THEN CreateFailed(e, m)
  ELSE IF o = "update" THEN UpdateFailed(e, m)
  ELSE SyncFailed(e, m)

\* saveEvent throws inside the try block (getItem or setItem rejects): the
\* catch block records the failure on `event` and calls saveEvent again
SaveThrowTry(p) ==
  /\ flow[p].pc \in {"sv_read", "sv_write"} /\ flow[p].ctx = "try"
  /\ \E m \in ErrMsgs :
       Step(p, [flow[p] EXCEPT !.pc = "sv_read", !.ctx = "catch", !.evs = <<>>,
                               !.ev = Caught(flow[p].op, flow[p].ev, m)])
  /\ UNCHANGED <<store, online, nextId, calls, lim, returned, removed, e2run, auto, db, facade, pass, slice>>

\* createEvent / updateEvent: saveEvent throws in the catch or the else
\* branch; nothing catches it and the call rejects
SaveThrowReject(p) ==
  /\ flow[p].pc \in {"sv_read", "sv_write"}
  /\ flow[p].ctx \in {"catch", "else"}
  /\ flow[p].op \in {"create", "update"}
  /\ Step(p, End(flow[p], "throw"))
  /\ UNCHANGED <<store, online, nextId, calls, lim, returned, removed, e2run, auto, db, facade, pass, slice>>

\* syncEvents: saveEvent throws inside the inner catch block; the outer catch
\* logs it and syncEvents returns
SyncAbort(p) ==
  /\ flow[p].pc \in {"sv_read", "sv_write"}
  /\ flow[p].ctx = "catch" /\ flow[p].op = "sync"
  /\ Step(p, OuterCatch(flow[p]))
  /\ UNCHANGED <<store, online, nextId, calls, lim, returned, removed, e2run, auto, db, facade, pass, slice>>

\* ---------------------------------------------------- syncEvents, the pass
\* `await this.localDataSource.getEvents()` resolves; the filter is applied
SyncEnum(p) ==
  /\ flow[p].pc = "s_enum"
  /\ Step(p, [flow[p] EXCEPT !.pc = "s_loop", !.idx = 1,
                             !.pend = PendingOrFailed(store)])
  /\ UNCHANGED <<store, online, nextId, calls, lim, returned, removed, e2run, auto, db, facade, pass, slice>>

\* getEvents throws (getItem rejects); the outer catch logs it
SyncEnumThrow(p) ==
  /\ flow[p].pc = "s_enum"
  /\ Step(p, OuterCatch(flow[p]))
  /\ UNCHANGED <<store, online, nextId, calls, lim, returned, removed, e2run, auto, db, facade, pass, slice>>

\* loop head: the event has used up its attempts, `continue`
SyncSkip(p) ==
  /\ flow[p].pc = "s_loop" /\ flow[p].idx <= Len(flow[p].pend)
  /\ SkipRule(flow[p].pend[flow[p].idx])
  /\ Step(p, [flow[p] EXCEPT !.idx = @ + 1])
  /\ UNCHANGED <<store, online, nextId, calls, lim, returned, removed, e2run, auto, db, facade, pass, slice>>

\* loop head: the event is attempted; the copy is made and saveEvent called
SyncAttempt(p) ==
  /\ flow[p].pc = "s_loop" /\ flow[p].idx <= Len(flow[p].pend)
  /\ ~SkipRule(flow[p].pend[flow[p].idx])
  /\ Step(p, [flow[p] EXCEPT !.pc = "sv_read", !.ctx = "try",
                             !.ev = flow[p].pend[flow[p].idx],
                             !.loc = SyncConfirmed(flow[p].pend[flow[p].idx])])
  /\ UNCHANGED <<store, online, nextId, calls, lim, returned, removed, e2run, auto, db, facade, pass, slice>>

\* the loop is exhausted; syncEvents returns
SyncEnd(p) ==
  /\ flow[p].pc = "s_loop" /\ flow[p].idx > Len(flow[p].pend)
  /\ Step(p, End(flow[p], "ok"))
  /\ UNCHANGED <<store, online, nextId, calls, lim, returned, removed, e2run, auto, db, facade, pass, slice>>

\* ------------------------------------------------- deleteEvent, clearEvents
\* data source deleteEvent: getEvents resolves
DeleteRead(p) ==
  /\ flow[p].pc = "d_read"
  /\ Step(p, [flow[p] EXCEPT !.pc = "d_write", !.evs = store])
  /\ UNCHANGED <<store, online, nextId, calls, lim, returned, removed, e2run, auto, db, facade, pass, slice>>

\* data source deleteEvent: the filtered collection is written
DeleteWrite(p) ==
  /\ flow[p].pc = "d_write"
  /\ store' = saveEvents(deleteEvent(flow[p].evs, flow[p].ev.id))
  /\ Step(p, End(flow[p], "ok"))
  /\ UNCHANGED <<online, nextId, calls, lim, returned, removed, e2run, auto, db, facade, pass, slice>>

\* data source deleteEvent throws; the repository's catch logs a warning
DeleteThrow(p) ==
  /\ flow[p].pc \in {"d_read", "d_write"}
  /\ Step(p, End([flow[p] EXCEPT !.ctx = "catch"], "ok"))
  /\ UNCHANGED <<store, online, nextId, calls, lim, returned, removed, e2run, auto, db, facade, pass, slice>>

\* clearEvents: removeItem(EVENTS_KEY) takes effect
ClearRemove(p) ==
  /\ flow[p].pc = "x_remove"
  /\ store' = <<>>
  /\ Step(p, End(flow[p], "ok"))
  /\ UNCHANGED <<online, nextId, calls, lim, returned, removed, e2run, auto, db, facade, pass, slice>>

\* ----------------------------------------- hooks, backends, interruption
\* the screens call the repository through the hooks, one mutation at a time
InitFacade ==
  /\ store = <<>>
  /\ online \in BOOLEAN
  /\ flow = [p \in Procs |-> NullFlow]
  /\ nextId = 1
  /\ calls = 0
  /\ returned = {}
  /\ removed = {}
  /\ e2run = [id \in EventIds |-> 0]
  /\ auto = NullAuto
  /\ db = NullDb
  /\ facade = [NullFacade EXCEPT !.on = TRUE]
  /\ pass = NullPass
  /\ slice = initialState
  /\ lim = [flows |-> 1, calls |-> MaxCallsFacade, events |-> MaxEventsFacade]

\* a session of one backend over what an earlier session has left; only
\* the durable backends keep a value across sessions
InitDb ==
  /\ store = <<>>
  /\ online \in BOOLEAN
  /\ flow = [p \in Procs |-> NullFlow]
  /\ nextId = 1
  /\ calls = 0
  /\ returned = {}
  /\ removed = {}
  /\ e2run = [id \in EventIds |-> 0]
  /\ auto = NullAuto
  /\ \E kind \in Kinds, value \in Persisted :
       /\ kind \in {"redux", "memory"} => value = NoValue
       /\ db = [NullDb EXCEPT !.kind = kind, !.under = value]
  /\ facade = NullFacade
  /\ pass = NullPass
  /\ slice = initialState
  /\ lim = [flows |-> 0, calls |-> 0, events |-> 0]

\* a record that createEvent, updateEvent or syncEvents can have left for the
\* event created at the instant id
Left(id, status, attempts) ==
  [Stringify(NewEvent(generateUUID(id), id)) EXCEPT
     !.status = status, !.syncAttempts = attempts,
     !.lastSyncError = IF attempts > 0 THEN "io" ELSE Absent]

\* the records an earlier session can have left for that event
LeftRecords(id) ==
  {Left(id, "PENDING", n) : n \in 0..MAX_RETRY_ATTEMPTS}
    \cup {Left(id, "FAILED", n) : n \in 1..MAX_RETRY_ATTEMPTS}
    \cup {Left(id, "SENT", 0)}

\* the application is launched online over one or two events; the passes are
\* run one after the other and each attempt meets the outcome drawn for its
\* event
InitResume ==
  /\ store \in {<<a>> : a \in LeftRecords(1)}
               \cup {<<a, b>> : a \in LeftRecords(1), b \in LeftRecords(2)}
  /\ online = TRUE
  /\ flow = [p \in Procs |-> NullFlow]
  /\ nextId = Len(store) + 1
  /\ calls = 0
  /\ returned = {}
  /\ removed = {}
  /\ e2run = [id \in EventIds |-> 0]
  /\ auto = NullAuto
  /\ db = NullDb
  /\ facade = NullFacade
  /\ \E outcome \in [1..Len(store) -> {"ok"} \cup ErrMsgs] :
       pass = [start |-> store, outcome |-> outcome, cuts |-> 0]
  /\ slice = initialState
  /\ lim = [flows |-> 1, calls |-> MaxPasses, events |-> 0]

\* the application is terminated during the first pass: the pass and its
\* locals are gone, what is stored stays
Interrupt ==
  /\ pass.cuts = 0 /\ calls = 1
  /\ \E p \in Procs : flow[p].op = "sync" /\ ~Resting(p)
  /\ flow' = [p \in Procs |-> NullFlow]
  /\ pass' = [pass EXCEPT !.cuts = @ + 1]
  /\ UNCHANGED <<store, online, nextId, calls, lim, returned, removed, e2run, auto, db, facade, slice>>

\* the try block's saveEvent completes for an event whose outcome is "ok";
\* the catch block's saveEvent completes
ResumeSave(p) ==
  /\ flow[p].pc = "sv_write"
  /\ flow[p].ctx = "try" => pass.outcome[SaveArg(flow[p]).id] = "ok"
  /\ SaveWriteSync(p)

\* the try block's saveEvent throws the error drawn for the event
ResumeThrow(p) ==
  /\ flow[p].op = "sync"
  /\ flow[p].pc \in {"sv_read", "sv_write"} /\ flow[p].ctx = "try"
  /\ pass.outcome[flow[p].ev.id] # "ok"
  /\ SaveThrowTry(p)
  /\ flow'[p].ev.lastSyncError = pass.outcome[flow[p].ev.id]

\* the application is launched over one or two events, connected or not, and
\* no pass has run
InitLive ==
  /\ store \in {<<a>> : a \in LeftRecords(1)}
               \cup {<<a, b>> : a \in LeftRecords(1), b \in LeftRecords(2)}
  /\ online \in BOOLEAN
  /\ flow = [p \in Procs |-> NullFlow]
  /\ nextId = Len(store) + 1
  /\ calls = 0
  /\ returned = {}
  /\ removed = {}
  /\ e2run = [id \in EventIds |-> 0]
  /\ auto = NullAuto
  /\ db = NullDb
  /\ facade = NullFacade
  /\ pass = NullPass
  /\ slice = initialState
  /\ lim = [flows |-> 1, calls |-> 0, events |-> 0]

\* connectivity is restored, and stays
Restore ==
  /\ ~online
  /\ online' = TRUE
  /\ UNCHANGED <<store, flow, nextId, calls, lim, returned, removed, e2run, auto, db, facade, pass, slice>>

\* one more pass is started (auto-sync, pull to refresh, the sync button):
\* syncEvents() is called
SyncAgain(p) ==
  /\ Resting(p) /\ p <= lim.flows
  /\ Step(p, Begin("sync", NullEvent, "conn"))
  /\ UNCHANGED <<store, online, nextId, calls, lim, returned, removed, e2run, auto, db, facade, pass, slice>>

\* ------------------------------------------------------------------- next
\* the sync engine: createEvent, updateEvent, syncEvents, connectivity
Next ==
  \/ NetChange
  \/ \E p \in Procs : CreateCall(p)
  \/ \E p \in Procs : UpdateCall(p)
  \/ \E p \in Procs : SyncCall(p)
  \/ \E p \in Procs : CreateConn(p)
  \/ \E p \in Procs : UpdateConn(p)
  \/ \E p \in Procs : SyncConn(p)
  \/ \E p \in Procs : SaveRead(p)
  \/ \E p \in Procs : SaveWriteReturn(p)
  \/ \E p \in Procs : SaveWriteSync(p)
  \/ \E p \in Procs : SaveThrowTry(p)
  \/ \E p \in Procs : SaveThrowReject(p)
  \/ \E p \in Procs : SyncAbort(p)
  \/ \E p \in Procs : SyncEnum(p)
  \/ \E p \in Procs : SyncEnumThrow(p)
  \/ \E p \in Procs : SyncSkip(p)
  \/ \E p \in Procs : SyncAttempt(p)
  \/ \E p \in Procs : SyncEnd(p)

\* the sync engine together with deletion
NextStore ==
  \/ Next
  \/ \E p \in Procs : DeleteCall(p)
  \/ \E p \in Procs : ClearCall(p)
  \/ \E p \in Procs : DeleteConn(p)
  \/ \E p \in Procs : DeleteRead(p)
  \/ \E p \in Procs : DeleteWrite(p)
  \/ \E p \in Procs : DeleteThrow(p)
  \/ \E p \in Procs : ClearRemove(p)

\* the auto-sync hook after launch, with the passes it starts
NextAuto ==
  \/ NetEvent
  \/ NetSame
  \/ Listener
  \/ InitialFetch
  \/ InitialResolve
  \/ \E p \in Procs : AutoSyncStart(p)
  \/ \E p \in Procs : SyncConn(p)
  \/ \E p \in Procs : SyncEnum(p)
  \/ \E p \in Procs : SyncEnumThrow(p)
  \/ \E p \in Procs : SyncSkip(p)
  \/ \E p \in Procs : SyncAttempt(p)
  \/ \E p \in Procs : SyncEnd(p)
  \/ \E p \in Procs : SaveRead(p)
  \/ \E p \in Procs : SaveWriteSync(p)
  \/ \E p \in Procs : SaveThrowTry(p)
  \/ \E p \in Procs : SyncAbort(p)

\* the data source over one backend
NextDb ==
  \/ DbSetItem
  \/ DbGetEvents
  \/ DbMultiGet
  \/ DbRemoveItem

\* the hooks: the mutations create, update, delete and sync, and the list
\* query
NextFacade ==
  \/ Next
  \/ \E p \in Procs : DeleteCall(p)
  \/ \E p \in Procs : DeleteConn(p)
  \/ \E p \in Procs : DeleteRead(p)
  \/ \E p \in Procs : DeleteWrite(p)
  \/ \E p \in Procs : DeleteThrow(p)
  \/ \E p \in Procs : Settle(p)
  \/ ListRead
  \/ Expire

\* passes over a launched application, the first of which may be interrupted
NextResume ==
  \/ Interrupt
  \/ \E p \in Procs : SyncCall(p)
  \/ \E p \in Procs : SyncConn(p)
  \/ \E p \in Procs : SyncEnum(p)
  \/ \E p \in Procs : SyncSkip(p)
  \/ \E p \in Procs : SyncAttempt(p)
  \/ \E p \in Procs : SaveRead(p)
  \/ \E p \in Procs : ResumeSave(p)
  \/ \E p \in Procs : ResumeThrow(p)
  \/ \E p \in Procs : SyncEnd(p)

\* passes that keep running, every attempt of which succeeds
NextLive ==
  \/ Restore
  \/ \E p \in Procs : SyncAgain(p)
  \/ \E p \in Procs : SyncConn(p)
  \/ \E p \in Procs : SyncEnum(p)
  \/ \E p \in Procs : SyncSkip(p)
  \/ \E p \in Procs : SyncAttempt(p)
  \/ \E p \in Procs : SaveRead(p)
  \/ \E p \in Procs : SaveWriteSync(p)
  \/ \E p \in Procs : SyncEnd(p)

\* the event slice on its own
NextSlice ==
  \/ SliceSetEvents
  \/ SliceAddEvent
  \/ SliceUpdateEvent
  \/ SliceRemoveEvent

\* overlapping calls
Spec == Init /\ [][Next]_vars

\* awaited calls
SpecSeq == InitSeq /\ [][Next]_vars

\* awaited calls, scenarios over three events
SpecScen == InitScen /\ [][Next]_vars

\* awaited calls, deletion included
SpecStore == InitSeq /\ [][NextStore]_vars

\* overlapping calls after launch, deletion included
SpecLaunch == InitLaunch /\ [][NextStore]_vars

\* the application after launch, driven by the auto-sync hook alone
SpecAuto == InitAuto /\ [][NextAuto]_vars

\* one key-value backend with the data source's calls
SpecDb == InitDb /\ [][NextDb]_vars

\* the screens over the hooks, awaited mutations
SpecFacade == InitFacade /\ [][NextFacade]_vars

\* reconciliation passes with an interruption
SpecResume == InitResume /\ [][NextResume]_vars

\* passes that keep running: connectivity is restored at some time, a pass
\* is started whenever none runs, and every await of a pass resolves
SpecLive ==
  /\ InitLive
  /\ [][NextLive]_vars
  /\ WF_vars(Restore)
  /\ \A p \in Procs :
       /\ WF_vars(SyncAgain(p))
       /\ WF_vars(SyncConn(p))
       /\ WF_vars(SyncEnum(p))
       /\ WF_vars(SyncSkip(p))
       /\ WF_vars(SyncAttempt(p))
       /\ WF_vars(SaveRead(p))
       /\ WF_vars(SaveWriteSync(p))
       /\ WF_vars(SyncEnd(p))

\* any sequence of the four event actions, from the initial state
SpecSlice == InitSlice /\ [][NextSlice]_vars

\* ============================================================ properties
\* flow p takes a step
Moves(p) == flow'[p] # flow[p]

\* flow p runs a syncEvents pass
InPass(p) == flow[p].op = "sync" /\ ~Resting(p)

\* flow p's saveEvent writes the collection in this step
Writes(p) ==
  /\ flow[p].pc = "sv_write"
  /\ IF flow[p].op = "sync"
       THEN flow'[p].pc = "s_loop"
       ELSE flow'[p].pc = "done" /\ flow'[p].res = "ok"

Cleared(e) == e.lastSyncError \in {Absent, ""}

\* C1: once createEvent(E) has returned, an event with id E.id is in the
\* stored collection in every later state, until deleteEvent(E.id) or
\* clearEvents is invoked, for every interleaving of createEvent, updateEvent
\* and syncEvents.
C1_NoLocalDataLoss == \A id \in returned \ removed : id \in Ids(store)

\* C2: a syncEvents pass that runs with no other call in flight never
\* removes an event: no step of the pass changes the set of stored ids, so
\* the set after the pass is the set before it.
C2_SyncKeepsIds ==
  [][\A p \in Procs : InPass(p) => Ids(store') = Ids(store)]_vars

\* a pass has gone through two or more events, skipping one and writing one
C2_Witness ==
  \E p \in Procs :
    /\ InPass(p) /\ flow[p].pc = "s_loop"
    /\ flow[p].idx > Len(flow[p].pend) /\ Len(flow[p].pend) >= 2
    /\ \E i \in 1..Len(flow[p].pend) : SkipRule(flow[p].pend[i])
    /\ \E i \in 1..Len(flow[p].pend) :
         /\ ~SkipRule(flow[p].pend[i])
         /\ getEventById(store, flow[p].pend[i].id) # flow[p].pend[i]
    /\ Ids(store) # {}

\* C3: createEvent called while the connectivity check reports disconnected
\* persists the event with status PENDING and syncAttempts 0, and reading the
\* event by id from the collection as createEvent returns yields that event:
\* the record stored for the event that createEvent returned.
C3_CreateOffline ==
  [][\A p \in Procs :
       (flow[p].op = "create" /\ ~flow[p].conn /\ Writes(p)) =>
         LET e == getEventById(store', flow[p].ev.id) IN
           /\ e.id = flow[p].ev.id /\ e.id # NullEvent.id
           /\ e.status = "PENDING" /\ e.syncAttempts = 0
           /\ flow'[p].res = "ok" /\ e = Stringify(SaveArg(flow'[p]))]_vars

\* createEvent has returned from its offline branch and the event is stored
C3_Witness ==
  \E p \in Procs :
    /\ flow[p].op = "create" /\ flow[p].pc = "done" /\ flow[p].res = "ok"
    /\ flow[p].ctx = "else" /\ ~flow[p].conn
    /\ getEventById(store, flow[p].ev.id) = Stringify(flow[p].ev)

\* C4: syncEvents invoked while disconnected returns without error and leaves
\* the stored collection as it was.
C4_SyncOfflineNoOp ==
  [][\A p \in Procs :
       (flow[p].op = "sync" /\ flow[p].pc = "conn" /\ ~online /\ Moves(p)) =>
         /\ flow'[p].pc = "done" /\ flow'[p].res = "ok"
         /\ store' = store]_vars

\* a pass has returned on the failed connectivity check while events wait
C4_Witness ==
  \E p \in Procs :
    /\ flow[p].op = "sync" /\ flow[p].pc = "done" /\ flow[p].res = "ok"
    /\ ~flow[p].conn
    /\ \E i \in 1..Len(store) :
         IsPendingOrFailed(store[i]) /\ ~SkipRule(store[i])

\* C5: a reconciliation attempt that succeeds persists the event with status
\* SENT, syncAttempts 0 and lastSyncError cleared, whatever it held before.
C5_SyncSuccessClears ==
  [][\A p \in Procs :
       (flow[p].op = "sync" /\ flow[p].ctx = "try" /\ Writes(p)) =>
         LET e == getEventById(store', flow[p].ev.id) IN
           /\ e.status = "SENT" /\ e.syncAttempts = 0 /\ Cleared(e)]_vars

\* C6: every stored event has 0 <= syncAttempts <= MAX_RETRY_ATTEMPTS, under
\* any interleaving of createEvent, updateEvent and syncEvents.
C6_AttemptsBounded ==
  \A i \in 1..Len(store) :
    0 <= store[i].syncAttempts /\ store[i].syncAttempts <= MAX_RETRY_ATTEMPTS

\* a stored event has used up its attempts
C6_Witness ==
  \E i \in 1..Len(store) : store[i].syncAttempts = MAX_RETRY_ATTEMPTS

\* C7: no stored event has syncAttempts >= MAX_RETRY_ATTEMPTS and a status
\* other than FAILED.
C7_ExhaustedIsFailed ==
  \A i \in 1..Len(store) :
    store[i].syncAttempts >= MAX_RETRY_ATTEMPTS => store[i].status = "FAILED"

\* C8: for an event FAILED with syncAttempts 2, the write of a failed
\* reconciliation attempt stores FAILED with syncAttempts 3; and no step of a
\* reconciliation pass changes the stored record of an event whose
\* syncAttempts is 3.
C8_LastAttemptThenSkipped ==
  [][\A p \in Procs :
       /\ (/\ flow[p].op = "sync" /\ flow[p].ctx = "catch" /\ Writes(p)
           /\ flow[p].pend[flow[p].idx].status = "FAILED"
           /\ flow[p].pend[flow[p].idx].syncAttempts = MAX_RETRY_ATTEMPTS - 1) =>
            LET e == getEventById(store', flow[p].ev.id) IN
              /\ e.status = "FAILED"
              /\ e.syncAttempts = MAX_RETRY_ATTEMPTS
       /\ InPass(p) =>
            \A i \in 1..Len(store) :
              store[i].syncAttempts >= MAX_RETRY_ATTEMPTS =>
                i <= Len(store') /\ store'[i] = store[i]]_vars

\* a pass has just stored the third failure of an event that was FAILED with
\* two attempts
C8_Witness ==
  \E p \in Procs :
    /\ InPass(p) /\ flow[p].pc = "s_loop" /\ flow[p].ctx = "catch"
    /\ flow[p].idx > 1
    /\ LET was == flow[p].pend[flow[p].idx - 1] IN
         /\ was.status = "FAILED"
         /\ was.syncAttempts = MAX_RETRY_ATTEMPTS - 1
         /\ getEventById(store, was.id).status = "FAILED"
         /\ getEventById(store, was.id).syncAttempts = MAX_RETRY_ATTEMPTS

\* flow p's pass has enumerated, at position j, an event whose creation while
\* connected failed and that had three failures recorded in a row by then
IsE2(p, j) ==
  /\ e2run[flow[p].pend[j].id] = MAX_RETRY_ATTEMPTS
  /\ SkipRule(flow[p].pend[j])

\* C9: an event E2 whose creation while connected failed and that has three
\* failures recorded in a row is stored with status FAILED and syncAttempts 3;
\* a pass that enumerates it leaves its record as it is, and every other
\* enumerated event with syncAttempts < 3 is attempted before the pass ends,
\* wherever E2 stands in the collection.
C9_ExhaustedDoesNotBlock ==
  [][/\ \A i \in 1..Len(store') :
          e2run'[store'[i].id] = MAX_RETRY_ATTEMPTS =>
            /\ store'[i].status = "FAILED"
            /\ store'[i].syncAttempts = MAX_RETRY_ATTEMPTS
     /\ \A p \in Procs :
          \A j \in 1..Len(flow[p].pend) :
            (InPass(p) /\ IsE2(p, j)) =>
              /\ getEventById(store', flow[p].pend[j].id) = flow[p].pend[j]
              /\ flow'[p].pc = "done" =>
                   \A i \in 1..Len(flow[p].pend) :
                     ~SkipRule(flow[p].pend[i]) => i <= flow[p].idx]_vars

\* C10: createEvent or updateEvent called while connected and whose write
\* succeeds persists and returns the event with status SENT, syncAttempts 0
\* and lastSyncError cleared, for every input event.
C10_OnlineSuccessClears ==
  [][\A p \in Procs :
       (flow[p].op \in {"create", "update"} /\ flow[p].ctx = "try" /\ Writes(p)) =>
         LET e == getEventById(store', flow[p].loc.id) IN
           /\ e = Stringify(SaveArg(flow'[p]))
           /\ e.status = "SENT" /\ e.syncAttempts = 0 /\ Cleared(e)]_vars

\* C11: when the write fails while connected, what createEvent persists is the
\* event with status FAILED, syncAttempts 1 and lastSyncError the failure
\* reason, and what updateEvent persists is the event with status FAILED,
\* syncAttempts min(previous syncAttempts + 1, MAX_RETRY_ATTEMPTS) and
\* lastSyncError the failure reason.
C11_OnlineFailureRecorded ==
  [][\A p \in Procs :
       (flow[p].op \in {"create", "update"} /\ flow[p].ctx = "catch" /\ Writes(p)) =>
         LET e == getEventById(store', flow[p].ev.id)
             was == getEventById(store, flow[p].ev.id)
         IN /\ e.id = flow[p].ev.id
            /\ e.status = "FAILED"
            /\ e.lastSyncError \in ErrMsgs
            /\ IF flow[p].op = "create"
                 THEN e.syncAttempts = 1
                 ELSE e.syncAttempts =
                        Min(was.syncAttempts + 1, MAX_RETRY_ATTEMPTS)]_vars

\* updateEvent has returned from its catch block and the event is stored
\* FAILED with the attempts at the cap
C11_Witness ==
  \E p \in Procs :
    /\ flow[p].op = "update" /\ flow[p].pc = "done" /\ flow[p].res = "ok"
    /\ flow[p].ctx = "catch" /\ flow[p].conn
    /\ getEventById(store, flow[p].ev.id) = flow[p].ev
    /\ flow[p].ev.status = "FAILED"
    /\ flow[p].ev.syncAttempts = MAX_RETRY_ATTEMPTS
    /\ flow[p].ev.lastSyncError \in ErrMsgs

\* C12: updateEvent called while disconnected persists the event with status
\* PENDING and with the syncAttempts and lastSyncError it was stored with,
\* whether it was SENT, PENDING or FAILED.
C12_UpdateOfflineFrame ==
  [][\A p \in Procs :
       (flow[p].op = "update" /\ ~flow[p].conn /\ Writes(p)) =>
         LET e == getEventById(store', flow[p].ev.id)
             was == getEventById(store, flow[p].ev.id)
         IN /\ was.id = flow[p].ev.id /\ e.id = was.id
            /\ was.status \in {"SENT", "PENDING", "FAILED"}
            /\ e.status = "PENDING"
            /\ e.syncAttempts = was.syncAttempts
            /\ e.lastSyncError = was.lastSyncError]_vars

\* updateEvent has returned from its offline branch for an event that had
\* failures recorded: they are still on the stored record
C12_Witness ==
  \E p \in Procs :
    /\ flow[p].op = "update" /\ flow[p].pc = "done" /\ flow[p].res = "ok"
    /\ flow[p].ctx = "else" /\ ~flow[p].conn
    /\ getEventById(store, flow[p].ev.id) = Stringify(flow[p].ev)
    /\ flow[p].ev.status = "PENDING"
    /\ flow[p].ev.syncAttempts > 0
    /\ flow[p].ev.lastSyncError \in ErrMsgs

\* C13: for a PENDING or FAILED event with syncAttempts a < 3, what a failed
\* reconciliation attempt persists is syncAttempts a + 1, lastSyncError the
\* failure reason, and status FAILED if a + 1 = 3 and PENDING otherwise (a
\* FAILED event with a + 1 < 3 becomes PENDING).
C13_SyncFailureRecorded ==
  [][\A p \in Procs :
       (flow[p].op = "sync" /\ flow[p].ctx = "catch" /\ Writes(p)) =>
         LET was == flow[p].pend[flow[p].idx]
             e == getEventById(store', was.id)
         IN /\ IsPendingOrFailed(was) /\ was.syncAttempts < MAX_RETRY_ATTEMPTS
            /\ e.id = was.id
            /\ e.syncAttempts = was.syncAttempts + 1
            /\ e.lastSyncError \in ErrMsgs
            /\ e.status = IF was.syncAttempts + 1 = MAX_RETRY_ATTEMPTS
                             THEN "FAILED" ELSE "PENDING"]_vars

\* a pass has just stored the failure of an event that was FAILED with one
\* attempt: it is stored PENDING with two
C13_Witness ==
  \E p \in Procs :
    /\ InPass(p) /\ flow[p].pc = "s_loop" /\ flow[p].ctx = "catch"
    /\ flow[p].idx > 1
    /\ LET was == flow[p].pend[flow[p].idx - 1] IN
         /\ was.status = "FAILED"
         /\ was.syncAttempts + 1 < MAX_RETRY_ATTEMPTS
         /\ getEventById(store, was.id).status = "PENDING"
         /\ getEventById(store, was.id).syncAttempts = was.syncAttempts + 1
         /\ getEventById(store, was.id).lastSyncError \in ErrMsgs

\* C14: per-event isolation in a reconciliation pass: when the attempt or the
\* persistence of one selected event fails, also when the save that records
\* the failure fails too, every later selected event with attempts left is
\* still attempted: a pass that has enumerated does not end before them.
C14_PerEventIsolation ==
  [][\A p \in Procs :
       (/\ InPass(p) /\ flow[p].pc \notin {"conn", "s_enum"}
        /\ flow'[p].pc = "done") =>
         \A i \in (flow[p].idx + 1)..Len(flow[p].pend) :
           SkipRule(flow[p].pend[i])]_vars

\* C15: syncEvents never throws to its caller when enumerating the stored
\* events fails or a step for one event fails: the call returns normally,
\* and no step of the pass changes the record of an event the pass has gone
\* past.
C15_SyncNeverThrows ==
  [][\A p \in Procs :
       (InPass(p) /\ Moves(p)) =>
         /\ flow'[p].pc = "done" => flow'[p].res = "ok"
         /\ \A j \in 1..(flow[p].idx - 1) :
              getEventById(store', flow[p].pend[j].id) =
                getEventById(store, flow[p].pend[j].id)]_vars

\* a pass has returned from its outer catch block; a confirmed event and an
\* event that still waits are stored
C15_Witness ==
  \E p \in Procs :
    /\ flow[p].op = "sync" /\ flow[p].pc = "done" /\ flow[p].res = "ok"
    /\ flow[p].ctx = "outer" /\ flow[p].conn
    /\ \E i \in 1..Len(store) : store[i].status = "SENT"
    /\ \E i \in 1..Len(store) :
         IsPendingOrFailed(store[i]) /\ ~SkipRule(store[i])

\* the listener is called in this step with a state of the given kind
Delivers(kind) ==
  /\ auto.queue # <<>> /\ auto'.queue = Tail(auto.queue)
  /\ Head(auto.queue).kind = kind

\* the listener invokes the reconciliation procedure in this step
Invokes(n) == auto'.syncs = auto.syncs + n

\* C16: the auto-sync listener invokes the reconciliation procedure exactly
\* once when it is handed a state that a disconnected-to-connected transition
\* of the oracle produced, and not at all when it is handed any other state
\* after the one at subscription, however the listener callbacks and the
\* initial isConnected() check that writes isOnline are ordered.
C16_OncePerTransition ==
  [][/\ Delivers("edge") => Invokes(1)
     /\ (Delivers("same") \/ Delivers("drop")) => Invokes(0)]_vars

\* the first listener callback and the initial isConnected() check have both
\* completed
LaunchDone ==
  /\ auto.mounted /\ auto.check = "resolved"
  /\ \A i \in 1..Len(auto.queue) : auto.queue[i].kind # "initial"

\* C17: when the application is launched while connected, the auto-sync hook
\* has triggered a reconciliation pass once the first listener callback and
\* the initial isConnected() check have both completed, in either order.
C17_SyncOnLaunch ==
  (LaunchDone /\ auto.launched) => auto.syncs >= 1

\* the records stored under an id
Records(events, id) == {i \in 1..Len(events) : events[i].id = id}

\* C18: scenario E1.  An event created offline is stored PENDING with
\* syncAttempts 0; a reconciliation that succeeds for an event that never
\* failed stores it SENT with syncAttempts 0, lastSyncError absent and a
\* serverId present; an offline update stores it PENDING with the serverId it
\* had; the next successful reconciliation finds the serverId present (an
\* update, not a second creation) and leaves it unchanged, and exactly one
\* record is stored for the event.
C18_ScenarioE1 ==
  [][\A p \in Procs :
       LET was == getEventById(store, flow[p].ev.id)
           e == getEventById(store', flow[p].ev.id)
       IN /\ (flow[p].op = "create" /\ ~flow[p].conn /\ Writes(p)) =>
               e.status = "PENDING" /\ e.syncAttempts = 0
          /\ (/\ flow[p].op = "sync" /\ flow[p].ctx = "try" /\ Writes(p)
              /\ was.lastSyncError = Absent) =>
               /\ e.status = "SENT" /\ e.syncAttempts = 0
               /\ e.lastSyncError = Absent
               /\ e.serverId # Absent
               /\ was.serverId # Absent => e.serverId = was.serverId
               /\ Cardinality(Records(store', e.id)) = 1
          /\ (/\ flow[p].op = "update" /\ ~flow[p].conn /\ Writes(p)
              /\ was.status = "SENT") =>
               e.status = "PENDING" /\ e.serverId = was.serverId]_vars

\* no two records of the collection have the same id
UniqueIds(events) ==
  \A i, j \in 1..Len(events) : events[i].id = events[j].id => i = j

\* C19: the stored collection holds at most one event per id in every
\* reachable state, under any interleaving of createEvent, updateEvent,
\* syncEvents and deleteEvent; and a step that changes the collection stores
\* no id other than the ids of the collection its call has read and the id of
\* the event the call was given.
C19_OneRecordPerId ==
  [][/\ UniqueIds(store')
     /\ store' # store =>
          \E p \in Procs :
            /\ Moves(p)
            /\ Ids(store') \subseteq Ids(flow[p].evs) \cup {flow[p].ev.id}]_vars

\* an update and a deletion have both returned and the updated event is
\* stored once
C19_Witness ==
  \E p, q \in Procs :
    /\ flow[p].op = "update" /\ flow[p].pc = "done" /\ flow[p].res = "ok"
    /\ flow[q].op = "delete" /\ flow[q].pc = "done" /\ flow[q].conn
    /\ Cardinality(Records(store, flow[p].ev.id)) = 1
    /\ Len(store) >= 2

\* the records of a collection
RecordsOf(events) == {events[i] : i \in 1..Len(events)}

\* the (status, syncAttempts) pairs a branch hands to saveEvent
BranchPair(f, e) ==
  IF f.ctx = "try" THEN e.status = "SENT" /\ e.syncAttempts = 0
  ELSE IF f.ctx = "catch" /\ f.op = "sync"
    THEN /\ e.syncAttempts >= 1
         /\ e.status = IF e.syncAttempts >= MAX_RETRY_ATTEMPTS
                          THEN "FAILED" ELSE "PENDING"
  ELSE IF f.ctx = "catch"
    THEN e.status = "FAILED" /\ e.syncAttempts >= 1
  ELSE e.status = "PENDING"

\* C20: what a reader finds in the store at any suspension point is, for every
\* event, a record that one single step has written whole: a step that
\* changes the collection stores, for each id, either the one object its
\* saveEvent was given, with the status and syncAttempts its branch has set
\* together, or a record of the collection that saveEvent had read, and what
\* a flow reads is the stored collection.
C20_PairWrittenTogether ==
  [][/\ store' # store =>
          \E p \in Procs :
            /\ Moves(p)
            /\ RecordsOf(store') \subseteq
                 RecordsOf(flow[p].evs) \cup {Stringify(SaveArg(flow[p]))}
            /\ Writes(p) => BranchPair(flow[p], SaveArg(flow[p]))
     /\ \A p \in Procs :
          flow'[p].evs # flow[p].evs => flow'[p].evs \in {store, <<>>}]_vars

\* a save in flight holds a collection it has read in which an event has
\* another (status, syncAttempts) pair than the stored record has by now
C20_Witness ==
  \E p \in Procs :
    /\ flow[p].pc = "sv_write"
    /\ \E k \in 1..Len(flow[p].evs) :
         LET e == getEventById(store, flow[p].evs[k].id) IN
           /\ e.id = flow[p].evs[k].id
           /\ <<e.status, e.syncAttempts>> #
                <<flow[p].evs[k].status, flow[p].evs[k].syncAttempts>>
           /\ e.syncAttempts > 0

\* C21: read-your-writes for a sequential caller: when createEvent or
\* updateEvent for an id has returned and nothing else runs, getEventById(id)
\* returns a record equal to the event that the operation returned.
C21_ReadYourWrites ==
  \A p \in Procs :
    (/\ flow[p].op \in {"create", "update"}
     /\ flow[p].pc = "done" /\ flow[p].res = "ok") =>
      getEventById(store, SaveArg(flow[p]).id) = SaveArg(flow[p])

\* C22: every operation that persists a changed event (createEvent,
\* updateEvent, each write of syncEvents for an event) stores an updatedAt
\* that is newer than the updatedAt the event had before the operation.
C22_UpdatedAtRefreshed ==
  [][\A p \in Procs :
       Writes(p) =>
         getEventById(store', flow[p].ev.id).updatedAt.at >
           flow[p].ev.updatedAt.at]_vars

\* C23: round trip of the persisted collection: the events that getEvents
\* loads after saveEvents has saved N events are those N events, every field
\* equal in value and in representation, occurredAt, createdAt and updatedAt
\* included (a timestamp comes back as a timestamp, not as its text).
C23_RoundTrip ==
  [][\A p \in Procs :
       Writes(p) => store' = saveEvent(flow[p].evs, SaveArg(flow[p]))]_vars

\* C24: an event is never removed from local storage before it is confirmed:
\* no step of createEvent, updateEvent, syncEvents or deleteEvent removes an
\* event that is stored with status PENDING or FAILED.
C24_NeverDeleteUnconfirmed ==
  [][(\A p \in Procs : Moves(p) => flow[p].op # "clear") =>
       \A i \in 1..Len(store) :
         IsPendingOrFailed(store[i]) => store[i].id \in Ids(store')]_vars

\* C25: storage backend failure policy, for each of the four backends: when
\* an underlying storage call fails the operation returns without
\* propagating the error, and once a call has failed every later operation
\* of the session is served from the in-memory substitute.
C25_BackendFailurePolicy ==
  [][db' # db =>
       /\ db'.out.failed => ~db'.out.threw
       /\ db.failed => db'.out.mem]_vars

\* C27: getEvents returns the empty sequence, without raising an error, when
\* getItem gives no value or text that cannot be parsed; in the collection
\* it returned getEventById finds no event, for every id.
C27_GetEventsAbsentOrCorrupt ==
  [][(/\ db' # db
      /\ db'.out.op = "getEvents"
      /\ db'.out.data.is \in {"absent", "text"}) =>
       /\ ~db'.out.threw
       /\ db'.out.events = <<>>
       /\ \A id \in EventIds : getEventById(db'.out.events, id) = NullEvent]_vars

\* getEvents has returned over a payload that cannot be parsed
C27_Witness ==
  /\ db.out.op = "getEvents"
  /\ db.out.data = Unparsable
  /\ ~db.out.threw
  /\ db.out.events = <<>>

\* C26: a creation performed while offline is reported to the caller as
\* success, never as an error: when the hook handles a create mutation whose
\* connectivity check found the device offline, onSuccess runs with the
\* event that is stored, stored as PENDING.
C26_OfflineCreateSuccess ==
  [][\A p \in Procs :
       (/\ Unhandled(p) /\ facade'.handled # facade.handled
        /\ flow[p].op = "create" /\ ~flow[p].conn) =>
         /\ facade'.shown = "success"
         /\ facade'.data.status = "PENDING"
         /\ getEventById(store, facade'.data.id) = Stringify(facade'.data)]_vars

\* C29: after every mutation that succeeds (create, update, delete, sync)
\* the cached list is invalidated: as long as no list read has fetched since
\* a mutation succeeded, a list read takes its data from the store.
C29_ListInvalidated ==
  facade.dirty =>
    /\ useGetEvents(facade, store).served = "store"
    /\ useGetEvents(facade, store).list = store

\* a mutation has succeeded over a list that was cached and fresh
C29_Witness ==
  /\ facade.dirty /\ facade.cached /\ facade.stale
  /\ facade.shown = "success"
  /\ facade.list # store

\* C30: saveEvent(e) replaces the record with id e.id in place when there is
\* one and appends e otherwise, every other record and the order unchanged;
\* deleteEvent(id) removes exactly the record with that id and changes no
\* record when the id is absent; after clearEvents the collection is empty.
C30_UpsertDeleteClear ==
  [][\A p \in Procs :
       /\ Writes(p) =>
            LET e == Stringify(SaveArg(flow[p])) IN
            IF e.id \in Ids(store)
            THEN /\ Len(store') = Len(store)
                 /\ \A i \in 1..Len(store) :
                      store'[i] = IF store[i].id = e.id THEN e ELSE store[i]
            ELSE store' = Append(store, e)
       /\ (/\ flow[p].pc = "d_write" /\ flow'[p].pc = "done"
           /\ flow'[p].ctx # "catch") =>
            /\ store' = SelectSeq(store, LAMBDA r : r.id # flow[p].ev.id)
            /\ flow[p].ev.id \notin Ids(store) => store' = store
       /\ (flow[p].pc = "x_remove" /\ flow'[p].pc = "done") =>
            /\ store' = <<>>
            /\ getEvents(NoValue).events = store']_vars

\* an update has replaced the first of two records in place
C30_Witness ==
  \E p \in Procs :
    /\ flow[p].op = "update" /\ flow[p].pc = "done" /\ flow[p].res = "ok"
    /\ Len(store) = 2
    /\ store[1] = Stringify(SaveArg(flow[p]))
    /\ store[2].id # store[1].id

\* the record an attempt with outcome o leaves for the event stored as r: r
\* itself when the pass does not attempt it
Expected(r, o) ==
  IF ~IsPendingOrFailed(r) \/ r.syncAttempts >= MAX_RETRY_ATTEMPTS THEN r
  ELSE IF o = "ok" THEN Stringify(SyncConfirmed(r))
  ELSE Stringify(SyncFailed(r, o))

\* the collection one pass over pass.start leaves when it attempts every
\* event once with the outcomes drawn
OnePass ==
  [i \in 1..Len(pass.start) |->
     Expected(pass.start[i], pass.outcome[pass.start[i].id])]

\* the n-th pass has returned
PassEnded(n) ==
  /\ calls = n
  /\ \E p \in Procs : flow[p].op = "sync" /\ flow[p].pc = "done"

\* every attempt succeeds
AllOk == \A id \in DOMAIN pass.outcome : pass.outcome[id] = "ok"

\* during the first pass, interrupted or not, each stored record is the
\* record from before the pass or the complete record of its attempt
RecordsWhole ==
  calls = 1 =>
    /\ Len(store) = Len(pass.start)
    /\ \A i \in 1..Len(store) : store[i] \in {pass.start[i], OnePass[i]}

\* a pass that follows a pass whose attempts all succeeded changes nothing
SecondPassIdle ==
  (pass.cuts = 0 /\ calls = 2 /\ AllOk) => store = OnePass

C31_LossConfinedToSameId ==
  [][\A p \in Procs :
       (Writes(p) /\ flow[p].evs # store) =>
         \A id \in Ids(store) :
           id # SaveArg(flow[p]).id => id \in Ids(store')]_vars

C33_SentStaysSent ==
  [][\A p \in Procs :
       (InPass(p) /\ Moves(p)) =>
         \A i \in 1..Len(store) :
           (store[i].status = "SENT" /\ store[i].id \in Ids(store')) =>
             LET r == getEventById(store', store[i].id) IN
             /\ r.status = store[i].status
             /\ r.syncAttempts = store[i].syncAttempts
             /\ r.lastSyncError = store[i].lastSyncError]_vars

\* the fields of an event that the user edits
Content(e) == <<e.comment, e.occurredAt>>

\* C34: a completed user edit is never overwritten by reconciliation: when
\* updateEvent(E') has returned while a pass that enumerated the collection
\* earlier is still running, the record the pass writes for that id keeps
\* the content fields that are stored, those of E', and not those of the
\* snapshot of the pass.
C34_EditSurvivesPass ==
  [][\A p \in Procs :
       (/\ flow[p].op = "sync" /\ Writes(p)
        /\ SaveArg(flow[p]).id \in Ids(store)) =>
         Content(getEventById(store', SaveArg(flow[p]).id))
           = Content(getEventById(store, SaveArg(flow[p]).id))]_vars

\* the fields of an event that a pass has no business with
Frame(e) == <<e.id, e.comment, e.occurredAt, e.createdAt, e.serverId>>

StoredAs(id, st) ==
  \E i \in 1..Len(store) : store[i].id = id /\ store[i].status = st

\* C36: liveness of confirmation: when connectivity is eventually restored
\* and passes keep running with attempts that succeed, every event stored
\* PENDING is eventually stored SENT.
C36_PendingEventuallySent ==
  \A id \in EventIds : StoredAs(id, "PENDING") ~> StoredAs(id, "SENT")

\* how far the locals f of a pass are from the end of its loop: the events
\* left to visit, then the awaits left in the visit of the current one
Remaining(f) ==
  5 * (Len(f.pend) + 1 - f.idx)
    + (IF f.pc = "s_loop" THEN 4
       ELSE IF f.ctx = "try" THEN (IF f.pc = "sv_read" THEN 3 ELSE 2)
       ELSE (IF f.pc = "sv_read" THEN 1 ELSE 0))

\* C37: every syncEvents pass terminates and attempts each selected event at
\* most once: every step of its loop ends the pass or brings it nearer the
\* end of the snapshot, which it never changes. What a pass writes for an
\* event has at most the enumerated syncAttempts plus 1, and exactly that
\* after a failed attempt, so two passes that enumerated the same value a
\* and both failed leave a + 1.
C37_OneAttemptPerPass ==
  [][\A p \in Procs :
       /\ (/\ InPass(p) /\ Moves(p)
           /\ flow[p].pc \in {"s_loop", "sv_read", "sv_write"}) =>
            \/ flow'[p].pc = "done"
            \/ /\ flow'[p].pend = flow[p].pend
               /\ flow'[p].idx \in {flow[p].idx, flow[p].idx + 1}
               /\ flow'[p].idx <= Len(flow[p].pend) + 1
               /\ Remaining(flow'[p]) < Remaining(flow[p])
       /\ (InPass(p) /\ Moves(p) /\ flow[p].pc = "conn") =>
            flow'[p].pc \in {"s_enum", "done"}
       /\ (InPass(p) /\ Moves(p) /\ flow[p].pc = "s_enum") =>
            flow'[p].pc \in {"s_loop", "done"}
       /\ (flow[p].op = "sync" /\ Writes(p)) =>
            LET was == flow[p].pend[flow[p].idx]
                now == getEventById(store', was.id) IN
            /\ SaveArg(flow[p]).id = was.id
            /\ now.syncAttempts <= was.syncAttempts + 1
            /\ flow[p].ctx = "catch" =>
                 now.syncAttempts = was.syncAttempts + 1]_vars

\* two passes enumerated the same event with the same syncAttempts, both
\* attempts failed and both failures are written
C37_Witness ==
  \E p, q \in Procs :
    /\ p # q
    /\ \A r \in {p, q} :
         /\ InPass(r) /\ flow[r].pc = "s_loop" /\ flow[r].idx = 2
         /\ flow[r].ctx = "catch"
    /\ flow[p].pend[1].id = flow[q].pend[1].id
    /\ flow[p].pend[1].syncAttempts = flow[q].pend[1].syncAttempts
    /\ getEventById(store, flow[p].pend[1].id).syncAttempts
         = flow[p].pend[1].syncAttempts + 1

\* C38: key-value read-after-write, for each backend: a getItem that
\* follows a completed setItem(EVENTS_KEY, v) with no other write in between
\* returns v, also when the underlying call failed during the setItem and
\* works during the getItem; multiGet returns one result per requested key,
\* in the order of the request.
C38_ReadAfterWrite ==
  [][db' # db =>
       /\ (/\ db.out.op = "setItem" /\ ~db.out.threw
           /\ db'.out.op = "getEvents" /\ db'.out.data # Unassigned) =>
            db'.out.data = db.out.arg
       /\ (db'.out.op = "multiGet" /\ ~db'.out.threw) =>
            /\ Len(db'.out.list) = Len(db'.out.keys)
            /\ \A i \in 1..Len(db'.out.keys) :
                 /\ db'.out.keys[i] = OtherKey => db'.out.list[i] = NoValue
                 /\ (/\ db'.out.keys[i] = EVENTS_KEY
                     /\ db.out.op = "setItem" /\ ~db.out.threw) =>
                      db'.out.list[i] = db.out.arg]_vars

\* C39: in the Redux event slice, after any sequence of setEvents,
\* addEvent, updateEvent and removeEvent, pendingCount is the number of
\* events in state.events whose status is PENDING, and is never negative.
C39_PendingCountExact ==
  /\ slice.pendingCount = PendingLength(slice.events)
  /\ slice.pendingCount >= 0

====
